---- MODULE Spec2Model ----
(***************************************************************************)
(* A model of quiz_analyzer.py: QuizAnalyzer (load_quiz, the four          *)
(* analyses, generate_report) and main.                                    *)
(*                                                                         *)
(* Labels are written without their accents ("Stratege" for "Stratège");   *)
(* the program only compares labels for equality and sorts them, and the   *)
(* sort order of the real strings is given by LabelOrder.  A Python dict   *)
(* or Counter is a sequence of [key, value] records in insertion order.    *)
(* A float quotient a / b is the record [num |-> a, den |-> b].            *)
(***************************************************************************)
EXTENDS Integers, Sequences, FiniteSets, TLC

VARIABLES
    file,                     \* the input: whether it opens, and its records
    pc,                       \* main's position
    exception,                \* the exception that ended the run, or None
    load_errors,              \* how many times load_quiz printed its error
    questions,                \* self.questions
    personalities,            \* self.personalities
    personality_distribution, \* self.personality_distribution
    question_analysis,        \* self.question_analysis
    distribution_analysis,    \* generate_report's local
    balance_analysis,         \* generate_report's local
    simulation_results,       \* generate_report's local
    targeted_tests,           \* generate_report's local
    trial,                    \* simulate_quiz_results: trials done
    results_counter,          \* simulate_quiz_results' local
    reachable_personalities,  \* simulate_quiz_results' local
    probed,                   \* generate_targeted_tests: targets probed so far
    target_personality,       \* generate_targeted_tests: the target just probed
    successful_personalities, \* generate_targeted_tests' local
    failed_personalities,     \* generate_targeted_tests' local
    answers,                  \* the AnswerSet of the last trial or probe
    scores,                   \* its tally
    result_personality,       \* its winner, or None
    total_score,              \* generate_report's local
    report_file               \* whether main wrote quiz_validation_report.json

vars == <<file, pc, exception, load_errors, questions, personalities,
          personality_distribution, question_analysis, distribution_analysis,
          balance_analysis, simulation_results, targeted_tests, trial,
          results_counter, reachable_personalities, probed, target_personality,
          successful_personalities, failed_personalities, answers, scores,
          result_personality, total_score, report_file>>

---------------------------------------------------------------------------
(* Bounds of the model *)

MaxQuestions == 2     \* question records in a file
MaxOptions == 4       \* option records in a file, over all its questions
MaxSimulations == 2   \* num_simulations (1000 by default)
MaxSpread == 7        \* largest minus smallest label count, where the counts are drawn

(* Program constants *)

FullPoints == 20
GoodPoints == 15
FairPoints == 10
ReachFull == 13
ReachGood == 10
ReachFair == 7
SpreadFull == 2
SpreadGood == 4
SpreadFair == 6
ExpectedOptions == 4
MinUnique == 3
max_score == 100

None == "None"

expected_personalities ==
    {"Stratege", "Creatif", "Organisateur", "Communicant", "Leader",
     "Collaboratif", "Mentor", "Independant", "Entrepreneur", "Realiste",
     "Visionnaire", "Methodique", "Explorateur", "Idealiste", "Perfectionniste"}

\* Every label of the model in the order Python's sorted() gives the real
\* strings (by code point: "Mentor" < "Méthodique", "Idéaliste" < "Indépendant").
\* "Autre" is a label outside the reference set.
LabelOrder ==
    <<"Autre", "Collaboratif", "Communicant", "Creatif", "Entrepreneur",
      "Explorateur", "Idealiste", "Independant", "Leader", "Mentor",
      "Methodique", "Organisateur", "Perfectionniste", "Realiste", "Stratege",
      "Visionnaire">>

Labels == {LabelOrder[i] : i \in DOMAIN LabelOrder}

---------------------------------------------------------------------------
(* Python's built-ins *)

Range(s) == {s[i] : i \in DOMAIN s}

Max(S) == CHOOSE x \in S : \A y \in S : y <= x

Min(S) == CHOOSE x \in S : \A y \in S : x <= y

RECURSIVE SumSeq(_)
SumSeq(s) == IF s = <<>> THEN 0 ELSE s[1] + SumSeq(Tail(s))

\* sorted(S) for a set of labels
Sorted(S) ==
    LET In(l) == l \in S
    IN  SelectSeq(LabelOrder, In)

Keys(d) == [i \in DOMAIN d |-> d[i].key]

Values(d) == [i \in DOMAIN d |-> d[i].value]

HasKey(d, k) == \E i \in DOMAIN d : d[i].key = k

\* d.get(k, default)
Get(d, k, default) ==
    IF HasKey(d, k) THEN d[CHOOSE i \in DOMAIN d : d[i].key = k].value
    ELSE default

\* d[k] = v: a new key goes last, a known key keeps its place
DictSet(d, k, v) ==
    IF HasKey(d, k)
    THEN [i \in DOMAIN d |-> IF d[i].key = k THEN [key |-> k, value |-> v] ELSE d[i]]
    ELSE Append(d, [key |-> k, value |-> v])

\* c[k] += 1 on a Counter
Increment(c, k) == DictSet(c, k, Get(c, k, 0) + 1)

\* Counter(values)
RECURSIVE CounterFrom(_, _)
CounterFrom(c, values) ==
    IF values = <<>> THEN c
    ELSE CounterFrom(Increment(c, values[1]), Tail(values))

Counter(values) == CounterFrom(<<>>, values)

---------------------------------------------------------------------------
(* The input.  A record stands for one match of question_pattern: its id
   and the personality labels of its option_pattern matches, in order (the
   prompt and the option texts are never read by the analyses). *)

QuestionIds == {1, 2}

QuizLabels == {"Leader", "Autre"}

SeqsUpTo(S, n) == UNION {[1..k -> S] : k \in 0..n}

\* the lists of at most n records that hold at most budget options in all
RECURSIVE Records(_, _)
Records(n, budget) ==
    IF n = 0 THEN {<<>>}
    ELSE {<<>>} \cup
         UNION {{<<[id |-> id, options |-> options]>> \o rest :
                    rest \in Records(n - 1, budget - Len(options))} :
                id \in QuestionIds, options \in SeqsUpTo(QuizLabels, budget)}

Reference == Tail(LabelOrder)

\* 15 questions of one option each: every reference label once
OneEachRecords ==
    [i \in 1..Len(Reference) |-> [id |-> i, options |-> <<Reference[i]>>]]

\* 4 questions of 4 distinct options each: every reference label, one twice
FourByFourRecords ==
    [i \in 1..4 |->
        [id |-> i,
         options |-> [j \in 1..4 |-> Reference[((4 * (i - 1) + j - 1) % Len(Reference)) + 1]]]]

Files ==
    {[readable |-> FALSE, records |-> <<>>]}
    \cup {[readable |-> TRUE, records |-> r] : r \in Records(MaxQuestions, MaxOptions)}
    \cup {[readable |-> TRUE, records |-> OneEachRecords],
          [readable |-> TRUE, records |-> FourByFourRecords]}

---------------------------------------------------------------------------
(* load_quiz *)

question_data(match) == [id |-> match.id, options |-> match.options]

ParseQuestions(matches) == [i \in DOMAIN matches |-> question_data(matches[i])]

\* the labels of all options, in the order the loops of load_quiz meet them
RECURSIVE OptionLabels(_)
OptionLabels(qs) ==
    IF qs = <<>> THEN <<>> ELSE qs[1].options \o OptionLabels(Tail(qs))

LoadQuiz ==
    /\ pc = "load_quiz"
    /\ IF file.readable
       THEN /\ questions' = ParseQuestions(file.records)
            /\ personalities' = Range(OptionLabels(questions'))
            /\ personality_distribution' = Counter(OptionLabels(questions'))
            /\ load_errors' = load_errors
            /\ pc' = "generate_report"
       ELSE /\ load_errors' = load_errors + 1
            /\ pc' = "load_failed"
            /\ UNCHANGED <<questions, personalities, personality_distribution>>
    /\ UNCHANGED <<file, exception, question_analysis, distribution_analysis,
                   balance_analysis, simulation_results, targeted_tests, trial,
                   results_counter, reachable_personalities, probed,
                   target_personality, successful_personalities,
                   failed_personalities, answers, scores, result_personality,
                   total_score, report_file>>

\* main's else branch: a message, and nothing more
MainLoadFailed ==
    /\ pc = "load_failed"
    /\ pc' = "exit"
    /\ UNCHANGED <<file, exception, load_errors, questions, personalities,
                   personality_distribution, question_analysis,
                   distribution_analysis, balance_analysis, simulation_results,
                   targeted_tests, trial, results_counter,
                   reachable_personalities, probed, target_personality,
                   successful_personalities, failed_personalities, answers,
                   scores, result_personality, total_score, report_file>>

---------------------------------------------------------------------------
(* analyze_personality_distribution *)

MissingObserved(observed) == observed \ expected_personalities

Missing(observed) == expected_personalities \ observed

Extra(observed) == observed \ expected_personalities

AnalyzeDistribution(observed, distribution) ==
    LET total_options == SumSeq(Values(distribution))
    IN  [missing |-> Missing(observed),
         extra |-> Extra(observed),
         distribution |-> distribution,
         total_options |-> total_options,
         ideal_per_personality |->
             [num |-> total_options, den |-> Cardinality(expected_personalities)]]

AnalyzePersonalityDistribution ==
    /\ pc = "generate_report"
    /\ distribution_analysis' = AnalyzeDistribution(personalities, personality_distribution)
    /\ pc' = "balance"
    /\ UNCHANGED <<file, exception, load_errors, questions, personalities,
                   personality_distribution, question_analysis,
                   balance_analysis, simulation_results, targeted_tests, trial,
                   results_counter, reachable_personalities, probed,
                   target_personality, successful_personalities,
                   failed_personalities, answers, scores, result_personality,
                   total_score, report_file>>

---------------------------------------------------------------------------
(* analyze_question_balance *)

Analysis(question) ==
    LET personalities_in_question == question.options
        unique_personalities == Range(personalities_in_question)
    IN  [id |-> question.id,
         total_options |-> Len(question.options),
         unique_personalities |-> Cardinality(unique_personalities),
         duplicates |-> Len(personalities_in_question) - Cardinality(unique_personalities)]

ProblemsOf(analysis) ==
    (IF analysis.total_options # ExpectedOptions
     THEN <<[id |-> analysis.id, problem |-> "options"]>> ELSE <<>>)
    \o (IF analysis.duplicates > 0
        THEN <<[id |-> analysis.id, problem |-> "duplicates"]>> ELSE <<>>)
    \o (IF analysis.unique_personalities < MinUnique
        THEN <<[id |-> analysis.id, problem |-> "unique"]>> ELSE <<>>)

RECURSIVE Problems(_)
Problems(analyses) ==
    IF analyses = <<>> THEN <<>>
    ELSE ProblemsOf(analyses[1]) \o Problems(Tail(analyses))

AnalyzeQuestionBalance ==
    /\ pc = "balance"
    /\ question_analysis' =
           question_analysis \o [i \in DOMAIN questions |-> Analysis(questions[i])]
    /\ IF Len(question_analysis') = 0
       THEN \* line 160 divides by len(self.question_analysis)
            /\ exception' = "ZeroDivisionError"
            /\ pc' = "exit"
            /\ UNCHANGED balance_analysis
       ELSE /\ balance_analysis' =
                   [problems |-> Problems([i \in DOMAIN questions |-> Analysis(questions[i])]),
                    avg_options |->
                        [num |-> SumSeq([i \in DOMAIN question_analysis' |->
                                            question_analysis'[i].total_options]),
                         den |-> Len(question_analysis')],
                    avg_unique_personalities |->
                        [num |-> SumSeq([i \in DOMAIN question_analysis' |->
                                            question_analysis'[i].unique_personalities]),
                         den |-> Len(question_analysis')],
                    question_details |-> question_analysis']
            /\ pc' = "simulate"
            /\ UNCHANGED exception
    /\ UNCHANGED <<file, load_errors, questions, personalities,
                   personality_distribution, distribution_analysis,
                   simulation_results, targeted_tests, trial, results_counter,
                   reachable_personalities, probed, target_personality,
                   successful_personalities, failed_personalities, answers,
                   scores, result_personality, total_score, report_file>>

---------------------------------------------------------------------------
(* The scoring shared by simulate_quiz_results and generate_targeted_tests *)

WinnerLast(tally) ==
    IF tally = <<>> THEN None
    ELSE LET top == Max(Range(Values(tally)))
             IsTop(e) == e.value = top
             winners == SelectSeq(tally, IsTop)
         IN  winners[Len(winners)].key

\* if scores: max_score = max(...); winners = [...]; winners[0]
Winner(tally) ==
    IF tally = <<>> THEN None
    ELSE LET top == Max(Range(Values(tally)))
             IsTop(e) == e.value = top
             winners == SelectSeq(tally, IsTop)
         IN  winners[1].key

SetAnswerAppend(built, id, label) == Append(built, [key |-> id, value |-> label])

\* answers[question['id']] = label
SetAnswer(built, id, label) == DictSet(built, id, label)

---------------------------------------------------------------------------
(* simulate_quiz_results *)

\* every AnswerSet the random choices of one trial can build
RECURSIVE RandomAnswers(_, _)
RandomAnswers(built, qs) ==
    IF qs = <<>> THEN {built}
    ELSE IF qs[1].options = <<>> THEN RandomAnswers(built, Tail(qs))
    ELSE UNION {RandomAnswers(SetAnswer(built, qs[1].id, qs[1].options[k]), Tail(qs)) :
                    k \in DOMAIN qs[1].options}

CountWinnerAlways(counter, result) == Increment(counter, result)

\* results_counter[result_personality] += 1, under "if scores"
CountWinner(counter, result) ==
    IF result = None THEN counter ELSE Increment(counter, result)

\* reachable_personalities.add(result_personality), under "if scores"
AddReachable(reachable, result) ==
    IF result = None THEN reachable ELSE reachable \cup {result}

SimulateTrial ==
    /\ pc = "simulate"
    /\ trial < MaxSimulations
    /\ \E a \in RandomAnswers(<<>>, questions) :
          /\ answers' = a
          /\ scores' = Counter(Values(a))
    /\ result_personality' = Winner(scores')
    /\ results_counter' = CountWinner(results_counter, result_personality')
    /\ reachable_personalities' = AddReachable(reachable_personalities, result_personality')
    /\ trial' = trial + 1
    /\ UNCHANGED <<file, pc, exception, load_errors, questions, personalities,
                   personality_distribution, question_analysis,
                   distribution_analysis, balance_analysis, simulation_results,
                   targeted_tests, probed, target_personality,
                   successful_personalities, failed_personalities, total_score,
                   report_file>>

SimulationResultsReference(observed, reachable, counter) ==
    [reachable_count |-> Cardinality(reachable \cap expected_personalities),
     reachable_personalities |-> reachable,
     missing_personalities |-> expected_personalities \ reachable,
     results_distribution |-> counter]

SimulationResults(observed, reachable, counter) ==
    [reachable_count |-> Cardinality(reachable),
     reachable_personalities |-> reachable,
     missing_personalities |-> observed \ reachable,
     results_distribution |-> counter]

SimulateFinish ==
    /\ pc = "simulate"
    /\ trial = MaxSimulations
    /\ simulation_results' =
           SimulationResults(personalities, reachable_personalities, results_counter)
    /\ pc' = "targeted"
    /\ UNCHANGED <<file, exception, load_errors, questions, personalities,
                   personality_distribution, question_analysis,
                   distribution_analysis, balance_analysis, targeted_tests,
                   trial, results_counter, reachable_personalities, probed,
                   target_personality, successful_personalities,
                   failed_personalities, answers, scores, result_personality,
                   total_score, report_file>>

---------------------------------------------------------------------------
(* generate_targeted_tests *)

ProbeTargetsReference(observed) == Sorted(expected_personalities)

\* for target_personality in sorted(self.personalities)
ProbeTargets(observed) == Sorted(observed)

FallbackLast(options) == options[Len(options)]

\* question['options'][0]['personality']
Fallback(options) == options[1]

RECURSIVE TargetedAnswersFrom(_, _, _)
TargetedAnswersFrom(built, qs, target) ==
    IF qs = <<>> THEN built
    ELSE LET question == qs[1]
             target_option == \E i \in DOMAIN question.options : question.options[i] = target
             next == IF target_option THEN SetAnswer(built, question.id, target)
                     ELSE IF question.options # <<>>
                          THEN SetAnswer(built, question.id, Fallback(question.options))
                          ELSE built
         IN  TargetedAnswersFrom(next, Tail(qs), target)

TargetedAnswers(qs, target) == TargetedAnswersFrom(<<>>, qs, target)

TargetedProbe ==
    /\ pc = "targeted"
    /\ probed < Len(ProbeTargets(personalities))
    /\ target_personality' = ProbeTargets(personalities)[probed + 1]
    /\ answers' = TargetedAnswers(questions, target_personality')
    /\ scores' = Counter(Values(answers'))
    /\ result_personality' = Winner(scores')
    /\ successful_personalities' =
           IF result_personality' # None /\ result_personality' = target_personality'
           THEN successful_personalities \cup {target_personality'}
           ELSE successful_personalities
    /\ failed_personalities' =
           IF result_personality' # None /\ result_personality' # target_personality'
           THEN failed_personalities \cup {target_personality'}
           ELSE failed_personalities
    /\ probed' = probed + 1
    /\ UNCHANGED <<file, pc, exception, load_errors, questions, personalities,
                   personality_distribution, question_analysis,
                   distribution_analysis, balance_analysis, simulation_results,
                   targeted_tests, trial, results_counter,
                   reachable_personalities, total_score, report_file>>

TargetedFinish ==
    /\ pc = "targeted"
    /\ probed = Len(ProbeTargets(personalities))
    /\ targeted_tests' = [successful |-> successful_personalities,
                          failed |-> failed_personalities]
    /\ pc' = "score"
    /\ UNCHANGED <<file, exception, load_errors, questions, personalities,
                   personality_distribution, question_analysis,
                   distribution_analysis, balance_analysis, simulation_results,
                   trial, results_counter, reachable_personalities, probed,
                   target_personality, successful_personalities,
                   failed_personalities, answers, scores, result_personality,
                   total_score, report_file>>

---------------------------------------------------------------------------
(* generate_report: the score, and main's write of the report *)

CompletenessPoints(distribution) ==
    IF distribution.missing = {} /\ distribution.extra = {} THEN FullPoints ELSE 0

BalancePoints(balance) ==
    IF balance.problems = <<>> THEN FullPoints ELSE 0

ReachPointsLoose(count) ==
    IF count >= ReachFull - 1 THEN FullPoints
    ELSE IF count >= ReachGood THEN GoodPoints
    ELSE IF count >= ReachFair THEN FairPoints
    ELSE 0

\* the same ladder for reachable_count and for len(targeted_tests['successful'])
ReachPoints(count) ==
    IF count >= ReachFull THEN FullPoints
    ELSE IF count >= ReachGood THEN GoodPoints
    ELSE IF count >= ReachFair THEN FairPoints
    ELSE 0

SpreadPoints(distribution_variance) ==
    IF distribution_variance <= SpreadFull THEN FullPoints
    ELSE IF distribution_variance <= SpreadGood THEN GoodPoints
    ELSE IF distribution_variance <= SpreadFair THEN FairPoints
    ELSE 0

\* max(values) - min(values), of a non-empty distribution
DistributionVariance(distribution) ==
    Max(Range(Values(distribution))) - Min(Range(Values(distribution)))

ComputeScore ==
    /\ pc = "score"
    /\ IF distribution_analysis.distribution = <<>>
       THEN \* line 309: max() of an empty sequence
            /\ exception' = "ValueError"
            /\ pc' = "exit"
            /\ UNCHANGED total_score
       ELSE /\ total_score' =
                   CompletenessPoints(distribution_analysis)
                   + BalancePoints(balance_analysis)
                   + ReachPoints(simulation_results.reachable_count)
                   + ReachPoints(Cardinality(targeted_tests.successful))
                   + SpreadPoints(DistributionVariance(distribution_analysis.distribution))
            /\ pc' = "write"
            /\ UNCHANGED exception
    /\ UNCHANGED <<file, load_errors, questions, personalities,
                   personality_distribution, question_analysis,
                   distribution_analysis, balance_analysis, simulation_results,
                   targeted_tests, trial, results_counter,
                   reachable_personalities, probed, target_personality,
                   successful_personalities, failed_personalities, answers,
                   scores, result_personality, report_file>>

\* main: json.dump(report, f, ...)
WriteReport ==
    /\ pc = "write"
    /\ report_file' = TRUE
    /\ pc' = "exit"
    /\ UNCHANGED <<file, exception, load_errors, questions, personalities,
                   personality_distribution, question_analysis,
                   distribution_analysis, balance_analysis, simulation_results,
                   targeted_tests, trial, results_counter,
                   reachable_personalities, probed, target_personality,
                   successful_personalities, failed_personalities, answers,
                   scores, result_personality, total_score>>

---------------------------------------------------------------------------
(* The run of main on a file *)

NoDistribution ==
    [missing |-> {}, extra |-> {}, distribution |-> <<>>, total_options |-> 0,
     ideal_per_personality |-> [num |-> 0, den |-> 1]]

NoBalance ==
    [problems |-> <<>>, avg_options |-> [num |-> 0, den |-> 1],
     avg_unique_personalities |-> [num |-> 0, den |-> 1], question_details |-> <<>>]

NoSimulation ==
    [reachable_count |-> 0, reachable_personalities |-> {},
     missing_personalities |-> {}, results_distribution |-> <<>>]

NoTargeted == [successful |-> {}, failed |-> {}]

\* QuizAnalyzer.__init__, and the locals of the methods before their first use
Fresh ==
    /\ exception = None
    /\ load_errors = 0
    /\ question_analysis = <<>>
    /\ trial = 0
    /\ results_counter = <<>>
    /\ reachable_personalities = {}
    /\ probed = 0
    /\ target_personality = None
    /\ successful_personalities = {}
    /\ failed_personalities = {}
    /\ answers = <<>>
    /\ scores = <<>>
    /\ result_personality = None
    /\ total_score = 0
    /\ report_file = FALSE

Init ==
    /\ file \in Files
    /\ pc = "load_quiz"
    /\ questions = <<>>
    /\ personalities = {}
    /\ personality_distribution = <<>>
    /\ distribution_analysis = NoDistribution
    /\ balance_analysis = NoBalance
    /\ simulation_results = NoSimulation
    /\ targeted_tests = NoTargeted
    /\ Fresh

Next ==
    \/ LoadQuiz
    \/ MainLoadFailed
    \/ AnalyzePersonalityDistribution
    \/ AnalyzeQuestionBalance
    \/ SimulateTrial
    \/ SimulateFinish
    \/ TargetedProbe
    \/ TargetedFinish
    \/ ComputeScore
    \/ WriteReport

Spec == Init /\ [][Next]_vars

---------------------------------------------------------------------------
(* The score alone: generate_report after its four analyses have returned.
   The results are drawn from quizzes of up to 16 observed labels: the first
   n reference labels and possibly "Autre", every label counted once but the
   last, of which the first r won a trial and the first s a probe. *)

ObservedLabels(n, other) ==
    SubSeq(Reference, 1, n) \o (IF other THEN <<"Autre">> ELSE <<>>)

OnceEach(labels, last) ==
    [i \in DOMAIN labels |->
        [key |-> labels[i], value |-> IF i = Len(labels) THEN last ELSE 1]]

InitReport ==
    /\ \E n \in 0..Len(Reference), other \in BOOLEAN, spread \in 0..MaxSpread,
          unbalanced \in BOOLEAN :
          LET observed == ObservedLabels(n, other)
              m == Len(observed)
          IN  \E r \in (IF m = 0 THEN {0} ELSE 1..m), s \in 0..m :
                 /\ personalities = Range(observed)
                 /\ personality_distribution = OnceEach(observed, 1 + spread)
                 /\ distribution_analysis =
                        AnalyzeDistribution(personalities, personality_distribution)
                 /\ balance_analysis =
                        [NoBalance EXCEPT !.problems =
                            IF unbalanced THEN <<[id |-> 1, problem |-> "options"]>>
                            ELSE <<>>]
                 /\ simulation_results =
                        SimulationResults(personalities,
                                          Range(SubSeq(observed, 1, r)),
                                          OnceEach(SubSeq(observed, 1, r), 1))
                 /\ targeted_tests =
                        [successful |-> Range(SubSeq(observed, 1, s)),
                         failed |-> Range(SubSeq(observed, s + 1, m))]
    /\ file = [readable |-> TRUE, records |-> <<>>]
    /\ questions = <<>>
    /\ pc = "score"
    /\ Fresh

NextReport ==
    \/ ComputeScore
    \/ WriteReport

SpecReport == InitReport /\ [][NextReport]_vars

---------------------------------------------------------------------------
(* Vocabulary of the properties, stated on the questions and on the labels
   of an AnswerSet without the operators of the model *)

WithOptions(qs) == {i \in DOMAIN qs : qs[i].options # <<>>}

UniqueIds(qs) == \A i, j \in DOMAIN qs : i # j => qs[i].id # qs[j].id

\* how many of the labels in vals are l
Count(vals, l) == Cardinality({i \in DOMAIN vals : vals[i] = l})

FirstIndex(vals, l) == Min({i \in DOMAIN vals : vals[i] = l})

\* w has the maximum tally of vals and, among the labels that have it, is the
\* one met first when vals is scanned from its first element
FirstTop(vals, w) ==
    /\ w \in Range(vals)
    /\ \A l \in Range(vals) :
          /\ Count(vals, l) <= Count(vals, w)
          /\ (l # w /\ Count(vals, l) = Count(vals, w))
                 => FirstIndex(vals, w) < FirstIndex(vals, l)

\* some other label ties w at the maximum tally
Tied(vals, w) ==
    /\ w \in Range(vals)
    /\ \A l \in Range(vals) : Count(vals, l) <= Count(vals, w)
    /\ \E l \in Range(vals) : l # w /\ Count(vals, l) = Count(vals, w)

\* the ids of the questions that have options
AnsweredIds(qs) == {qs[i].id : i \in WithOptions(qs)}

\* where an id first appears among the questions that have options
FirstPlace(qs, id) == Min({i \in WithOptions(qs) : qs[i].id = id})

\* the labels of an AnswerSet, its ids taken in increasing order
RECURSIVE ByIncreasingId(_, _)
ByIncreasingId(dict, ids) ==
    IF ids = {} THEN <<>>
    ELSE <<Get(dict, Min(ids), None)>> \o ByIncreasingId(dict, ids \ {Min(ids)})

\* the place in the parsed list of the first question whose id the
\* AnswerSet maps to l
FirstAnswered(dict, qs, l) ==
    Min({FirstPlace(qs, dict[k].key) : k \in {i \in DOMAIN dict : dict[i].value = l}})

\* w has the maximum tally of the AnswerSet and, among the labels that have
\* it, is the one met first when the ids are taken in the order in which the
\* parsed list first presents them
FirstTopBySourceOrder(dict, qs, w) ==
    /\ w \in Range(Values(dict))
    /\ \A l \in Range(Values(dict)) :
          /\ Count(Values(dict), l) <= Count(Values(dict), w)
          /\ (l # w /\ Count(Values(dict), l) = Count(Values(dict), w))
                 => FirstAnswered(dict, qs, w) < FirstAnswered(dict, qs, l)

AnswerIds == Range(Keys(answers))

\* an AnswerSet has been built and scored
Scored == trial > 0 \/ probed > 0

SimulationDone ==
    \/ pc \in {"targeted", "score", "write"}
    \/ pc = "exit" /\ (report_file \/ exception = "ValueError")

TargetedDone ==
    \/ pc \in {"score", "write"}
    \/ pc = "exit" /\ (report_file \/ exception = "ValueError")

\* analyze_personality_distribution has just returned
DistributionReturned == pc = "balance"

---------------------------------------------------------------------------
\* C1 (as stated): in the Simulator and in the Prober the winner of an
\* AnswerSet is the label of maximum tally met first when the answers are
\* scanned in increasing question-id order, whatever the order of the
\* questions in the source.
C1_WinnerFirstByIncreasingId ==
    (Scored /\ answers # <<>>) =>
        FirstTop(ByIncreasingId(answers, AnswerIds), result_personality)

\* C1 (amended): the winner is the label of maximum tally met first when the
\* answers are scanned in the order in which the parsed list first presents
\* their question ids (the source order).
C1_WinnerFirstBySourceOrder ==
    (Scored /\ answers # <<>>) =>
        /\ AnswerIds = AnsweredIds(questions)
        /\ FirstTopBySourceOrder(answers, questions, result_personality)

\* a tie at the maximum, in a quiz whose ids do not appear in increasing order
C1_Witness ==
    /\ Scored
    /\ answers # <<>>
    /\ Tied(Values(answers), result_personality)
    /\ \E i, j \in DOMAIN questions : i < j /\ questions[i].id > questions[j].id
    /\ ~FirstTop(ByIncreasingId(answers, AnswerIds), result_personality)

---------------------------------------------------------------------------
\* the options of all questions tagged l
Tagged(qs, l) ==
    UNION {{<<i, j>> : j \in {k \in DOMAIN qs[i].options : qs[i].options[k] = l}} :
              i \in DOMAIN qs}

Offered(qs) == UNION {Range(qs[i].options) : i \in DOMAIN qs}

RECURSIVE TotalOptions(_)
TotalOptions(qs) == IF qs = <<>> THEN 0 ELSE Len(qs[1].options) + TotalOptions(Tail(qs))

\* C2: after a successful load that yields no question, or only questions
\* without options, generate_report runs to completion without raising and
\* the report is returned, its averages and count-spread defaulting to zero.
C2_DegenerateQuizReported ==
    (file.readable /\ pc = "exit" /\ TotalOptions(questions) = 0) =>
        /\ exception = None
        /\ report_file
        /\ distribution_analysis.total_options = 0
        /\ balance_analysis.avg_options.num = 0

---------------------------------------------------------------------------
\* C3 (as stated): after generate_targeted_tests every reference label is in
\* exactly one of 'successful' and 'failed', no label outside the reference
\* set is in either, and a reference label that no question offers is in
\* 'failed'.
C3_ProbesReferenceLabels ==
    TargetedDone =>
        /\ \A l \in expected_personalities :
              (l \in targeted_tests.successful) # (l \in targeted_tests.failed)
        /\ (targeted_tests.successful \cup targeted_tests.failed) \subseteq expected_personalities
        /\ (expected_personalities \ Offered(questions)) \subseteq targeted_tests.failed

\* C3 (amended): after generate_targeted_tests every label that some option
\* of the quiz carries, in the reference set or not, is in exactly one of
\* 'successful' and 'failed', and a label that no question offers is in
\* neither.
C3_ProbesObservedLabels ==
    TargetedDone =>
        /\ \A l \in Offered(questions) :
              (l \in targeted_tests.successful) # (l \in targeted_tests.failed)
        /\ (targeted_tests.successful \cup targeted_tests.failed) \subseteq Offered(questions)

\* the probes are over for a quiz that offers a label outside the reference
\* set and lacks a reference label
C3_Witness ==
    /\ TargetedDone
    /\ "Autre" \in targeted_tests.successful \cup targeted_tests.failed
    /\ "Leader" \in targeted_tests.successful \cup targeted_tests.failed
    /\ expected_personalities \ Offered(questions) # {}

---------------------------------------------------------------------------
\* the labels that won at least one trial
Winners ==
    {simulation_results.results_distribution[k].key :
        k \in {i \in DOMAIN simulation_results.results_distribution :
                  simulation_results.results_distribution[i].value > 0}}

\* C4 (as stated): after the trials 'reachable_count' is the number of
\* reference labels that won a trial and 'missing_personalities' the set of
\* reference labels that won none.
C4_CountsReferenceLabels ==
    SimulationDone =>
        /\ simulation_results.reachable_count = Cardinality(Winners \cap expected_personalities)
        /\ simulation_results.missing_personalities = expected_personalities \ Winners

\* C4 (amended): after the trials 'reachable_count' is the number of labels,
\* in the reference set or not, that won a trial, and
\* 'missing_personalities' the set of labels offered by the quiz that won
\* none.
C4_CountsWinningLabels ==
    SimulationDone =>
        /\ simulation_results.reachable_count = Cardinality(Winners)
        /\ simulation_results.missing_personalities = Offered(questions) \ Winners

\* the trials are over, a label outside the reference set and a reference
\* label have both won, and another offered label never won
C4_Witness ==
    /\ SimulationDone
    /\ "Autre" \in Winners
    /\ Winners \cap expected_personalities # {}
    /\ simulation_results.reachable_count = 2

---------------------------------------------------------------------------
\* C6: an empty AnswerSet has no winner and raises nothing; a trial with an
\* empty AnswerSet adds nothing to the winner tally nor to the reachable
\* set, and a label whose probe AnswerSet is empty is in neither
\* 'successful' nor 'failed'.
C6_EmptyAnswerSetNoResult ==
    /\ (pc \in {"simulate", "targeted"} /\ Scored /\ answers = <<>>) =>
          /\ result_personality = None
          /\ exception = None
    /\ (pc = "simulate" /\ trial > 0 /\ answers = <<>>) =>
          /\ results_counter = <<>>
          /\ reachable_personalities = {}
    /\ (AnsweredIds(questions) = {}) =>
          \A l \in Labels : l \notin successful_personalities \cup failed_personalities

\* a trial has run on questions none of which has an option
C6_Witness ==
    /\ pc = "simulate"
    /\ trial > 0
    /\ questions # <<>>
    /\ answers = <<>>

---------------------------------------------------------------------------
\* C7 (as stated): an AnswerSet has exactly one label for each parsed
\* question that has options, a label of one of that question's options,
\* and none for a question without options; its tally sums to the number of
\* questions that have options, repeated ids included.
C7_OneAnswerPerQuestion ==
    Scored =>
        /\ Len(answers) = Cardinality(WithOptions(questions))
        /\ SumSeq(Values(scores)) = Cardinality(WithOptions(questions))
        /\ \A i \in DOMAIN questions :
              IF questions[i].options # <<>>
              THEN Get(answers, questions[i].id, None) \in Range(questions[i].options)
              ELSE ~HasKey(answers, questions[i].id)

\* C7 (amended): an AnswerSet has exactly one label for each distinct id
\* among the parsed questions that have options, a label of an option of a
\* question with that id; its tally sums to the number of those distinct ids.
C7_OneAnswerPerId ==
    Scored =>
        /\ AnswerIds = AnsweredIds(questions)
        /\ Len(answers) = Cardinality(AnsweredIds(questions))
        /\ SumSeq(Values(scores)) = Cardinality(AnsweredIds(questions))
        /\ \A k \in DOMAIN answers :
              \E i \in WithOptions(questions) :
                  /\ questions[i].id = answers[k].key
                  /\ answers[k].value \in Range(questions[i].options)

\* an AnswerSet built from two questions with options that share an id
C7_Witness ==
    /\ Scored
    /\ Cardinality(WithOptions(questions)) = 2
    /\ Cardinality(AnsweredIds(questions)) = 1
    /\ Len(answers) = 1

---------------------------------------------------------------------------
\* C8: analyze_personality_distribution returns missing = reference labels
\* not offered, extra = offered labels outside the reference set, for each
\* label the number of options tagged with it, total_options = the number of
\* options of all questions, and ideal share = total_options / 15; a quiz
\* that offers exactly the 15 reference labels has nothing missing or extra.
C8_DistributionAnalysis ==
    DistributionReturned =>
        /\ distribution_analysis.missing = expected_personalities \ Offered(questions)
        /\ distribution_analysis.extra = Offered(questions) \ expected_personalities
        /\ \A l \in Labels :
              Get(distribution_analysis.distribution, l, 0) = Cardinality(Tagged(questions, l))
        /\ Range(Keys(distribution_analysis.distribution)) = Offered(questions)
        /\ distribution_analysis.total_options = TotalOptions(questions)
        /\ distribution_analysis.ideal_per_personality.num = TotalOptions(questions)
        /\ distribution_analysis.ideal_per_personality.den = 15
        /\ (Offered(questions) = expected_personalities) =>
               (distribution_analysis.missing = {} /\ distribution_analysis.extra = {})

\* the analysis of a quiz that offers exactly the 15 reference labels, each once
C8_Witness ==
    /\ DistributionReturned
    /\ Offered(questions) = expected_personalities
    /\ distribution_analysis.total_options = 15

---------------------------------------------------------------------------
\* C5: if the input cannot be opened or decoded, load_quiz reports the
\* error once and returns False with the question list, the label set and
\* the label counts still empty, and main runs no analysis and writes no
\* report; no other run ends without a report.
C5_OnlyLoadFailureEndsWithoutReport ==
    /\ (~file.readable /\ pc \in {"load_failed", "exit"}) =>
          /\ load_errors = 1
          /\ questions = <<>>
          /\ personalities = {}
          /\ personality_distribution = <<>>
          /\ distribution_analysis = NoDistribution
          /\ question_analysis = <<>>
          /\ trial = 0
          /\ probed = 0
          /\ ~report_file
    /\ (pc = "exit" /\ ~report_file) => ~file.readable

---------------------------------------------------------------------------
\* the report has its score
ScoreDone == pc = "write" \/ report_file

\* how many of the five criteria are met in full
CriteriaMet ==
    (IF distribution_analysis.missing = {} /\ distribution_analysis.extra = {} THEN 1 ELSE 0)
    + (IF balance_analysis.problems = <<>> THEN 1 ELSE 0)
    + (IF simulation_results.reachable_count >= 13 THEN 1 ELSE 0)
    + (IF Cardinality(targeted_tests.successful) >= 13 THEN 1 ELSE 0)
    + (IF \A i, j \in DOMAIN distribution_analysis.distribution :
              distribution_analysis.distribution[i].value
                  - distribution_analysis.distribution[j].value <= 2
       THEN 1 ELSE 0)

---------------------------------------------------------------------------
\* the Prober has just probed target_personality
Probed == pc = "targeted" /\ probed > 0

====
